---- MODULE Spec2Model ----
(***************************************************************************)
(* Model of the two reservation programs of the repository:                *)
(*   src/LLD/meetingScheduler.cpp  (MeetingService, CalendarService,       *)
(*                                  SmallestFitStrategy)                   *)
(*   src/LLD/parkingLot.cpp        (ParkingService, BookingRepository)     *)
(* The variable prog says which of the two programs a behaviour runs.      *)
(***************************************************************************)
EXTENDS Integers, Sequences, FiniteSets, TLC

\* ---------------------------------------------------------------- bounds
NumThreads == 2
MaxCalls   == 3      \* calls per run once two calls have overlapped in time
MaxSeqCalls == 4     \* calls per run while every call runs alone
MaxCap     == 2
MaxListLen == 3
NumSpots   == 2
NumVehicles == 2

Threads == 1..NumThreads
Ids     == 1..(MaxSeqCalls + 1)

\* ------------------------------------------------------- meetingScheduler
VARIABLES
  prog,        \* which program runs: "meeting" or "parking"
  ncalls,      \* number of API calls invoked so far
  seq,         \* history: no two calls have overlapped in time so far
  rooms_,      \* RoomRepository::rooms_
  br_,         \* MeetingService::br_ (BookingRepository::bookings_)
  cal,         \* CalendarService::repo_ (its own BookingRepository)
  mutexes_,    \* MeetingService::mutexes_: the mutex nodes of the map
  locked,      \* the mutex nodes that are currently locked
  nextId,      \* newUUID(): the next fresh identifier
  pc, op, arg, b, lockRef, ret,   \* per thread: position, call, argument, locals, result
  scen,        \* history: progress of the book / book / cancel / book scenario
  released,    \* history, per key: "never" allocated, "held", or "released" (the last
               \* release returned true and no allocate of the key took effect since)
  clean,       \* history, per thread: no allocate of its key took effect during its release
  \* ------------------------------------------------------------ parkingLot
  spots_,      \* ParkingSpotRepository::spots_: spot id -> SpotType, in id order
  pmutexes_,   \* ParkingService::mutexes_: the spot ids holding a mutex
  plocked,     \* the spot mutexes that are currently locked
  bookings_,   \* BookingRepository::bookings_
  vehicleIndex_, \* BookingRepository::vehicleIndex_: vehicle id -> booking id (0: no entry)
  veh, vtype, it, pb   \* per thread: vehicleId, vt, the loop's iterator, the Booking b

mvars == <<rooms_, br_, cal, mutexes_, locked, arg, b, lockRef, scen>>
pvars == <<spots_, pmutexes_, plocked, bookings_, vehicleIndex_, veh, vtype, it, pb>>
cvars == <<prog, ncalls, seq, nextId, pc, op, ret, released, clean>>
vars  == <<mvars, pvars, cvars>>

NoBooking == [id |-> 0, roomId |-> 0, start |-> 0, end |-> 0]
NoArg     == [start |-> 0, end |-> 0, n |-> 0, id |-> 0]
NoRoom    == [id |-> 0, capacity |-> 0]
NoNode    == [room |-> 0, by |-> 0]
NoScen    == [phase |-> 0, start |-> 0, end |-> 0, n |-> 0, id |-> 0, mixed |-> FALSE]

\* What a call returns, by return type: a booking id (optional<string>), a bool,
\* a list of spot ids (vector<string>); select returns a Room.
RetId(i)    == [id |-> i]
RetBool(x)  == [ok |-> x]
RetSpots(l) == [spots |-> l]
NoRet     == [none |-> 0]     \* no call has returned to the thread
Empty     == RetId(0)         \* std::nullopt as a returned booking id

\* struct Room
Room(i, c) == [id |-> i, capacity |-> c]

\* The catalog the service is set up with: a small room and a large one.
Catalog == <<Room(1, 1), Room(2, MaxCap)>>

\* length of a calendar day, in ticks
DayLen == 2

\* CalendarService::toDate
toDate(t) == t \div DayLen

\* RoomRepository::findByCapacity: the rooms holding at least cap, in catalog order
findByCapacity(rooms, cap) == SelectSeq(rooms, LAMBDA r : r.capacity >= cap)

\* BookingRepository::findByRoomAndDay: the room's bookings that start on the day
\* or are under way when it begins
findByRoomAndDay(repo, roomId, day) ==
  { x \in repo : /\ x.roomId = roomId
                 /\ \/ toDate(x.start) = day
                    \/ (x.start < day * DayLen /\ x.end > day * DayLen) }

\* CalendarService::overlaps, mutated: closed intervals
overlapsClosed(a, x) == ~(x.end < a.start \/ x.start > a.end)

\* CalendarService::overlaps
overlaps(a, x) == ~(x.end <= a.start \/ x.start >= a.end)

\* CalendarService::isFree
isFree(repo, roomId, x) ==
  \A ex \in findByRoomAndDay(repo, roomId, toDate(x.start)) : ~overlaps(ex, x)

\* mutated: <= lets a later room of equal capacity replace the best
RECURSIVE selectLoopLast(_, _, _, _)
selectLoopLast(rooms, cap, i, best) ==
  IF i > Len(rooms) THEN best
  ELSE IF rooms[i].capacity >= cap /\ (best = NoRoom \/ rooms[i].capacity <= best.capacity)
       THEN selectLoopLast(rooms, cap, i + 1, rooms[i])
       ELSE selectLoopLast(rooms, cap, i + 1, best)

\* mutated: the capacity test dropped
RECURSIVE selectLoopAny(_, _, _, _)
selectLoopAny(rooms, cap, i, best) ==
  IF i > Len(rooms) THEN best
  ELSE IF best = NoRoom \/ rooms[i].capacity < best.capacity
       THEN selectLoopAny(rooms, cap, i + 1, rooms[i])
       ELSE selectLoopAny(rooms, cap, i + 1, best)

\* SmallestFitStrategy::select, the loop over rooms[i..], best so far in best
RECURSIVE selectLoop(_, _, _, _)
selectLoop(rooms, cap, i, best) ==
  IF i > Len(rooms) THEN best
  ELSE IF rooms[i].capacity >= cap /\ (best = NoRoom \/ rooms[i].capacity < best.capacity)
       THEN selectLoop(rooms, cap, i + 1, rooms[i])
       ELSE selectLoop(rooms, cap, i + 1, best)

\* SmallestFitStrategy::select (NoRoom is the empty optional)
select(rooms, cap) == selectLoop(rooms, cap, 1, NoRoom)

\* ------------------------------------------------------------ call history
InCall(u) == pc[u] \notin {"idle", "done"}

Alone(t) == \A u \in Threads \ {t} : ~InCall(u)

\* thread t invokes a call: the run's budget of calls. Threads carry nothing from
\* one call to the next, so a call runs on the lowest thread that is not inside one.
Invoke(t) ==
  /\ \A u \in Threads : u < t => InCall(u)
  /\ ncalls < (IF seq /\ Alone(t) THEN MaxSeqCalls ELSE MaxCalls)
  /\ ncalls' = ncalls + 1
  /\ seq' = (seq /\ Alone(t))

\* history kept when thread t invokes call o with argument a
ScenCall(t, o, a) ==
  IF ~Alone(t) THEN [NoScen EXCEPT !.mixed = TRUE]
  ELSE IF \/ /\ scen.phase \in {1, 3}
             /\ o = "bookMeeting"
             /\ a.start = scen.start /\ a.end = scen.end /\ a.n = scen.n
          \/ /\ scen.phase = 2
             /\ o = "cancelMeeting"
             /\ a.id = scen.id
       THEN scen
       ELSE NoScen

\* history kept when thread t returns r
ScenRet(t, r) ==
  IF scen.mixed THEN scen
  ELSE IF scen.phase \in {0, 1}
       THEN IF op[t] = "bookMeeting" /\ r # Empty
            THEN [phase |-> 1, start |-> arg[t].start, end |-> arg[t].end,
                  n |-> arg[t].n, id |-> r.id, mixed |-> FALSE]
            ELSE IF scen.phase = 1 THEN [scen EXCEPT !.phase = 2] ELSE NoScen
       ELSE IF scen.phase = 2
            THEN IF r = RetBool(TRUE) THEN [scen EXCEPT !.phase = 3] ELSE NoScen
            ELSE [scen EXCEPT !.phase = 4, !.id = r.id]

\* ------------------------------------------------------------ bookMeeting
\* a call's return: the result is set and the locals die
Finish(t, r) ==
  /\ pc' = [pc EXCEPT ![t] = "done"]
  /\ ret' = [ret EXCEPT ![t] = r]
  /\ b' = [b EXCEPT ![t] = NoBooking]
  /\ lockRef' = [lockRef EXCEPT ![t] = NoNode]
  /\ scen' = ScenRet(t, r)

\* bookMeeting, lines 190-196: candidates, strategy, the booking and its id
BookCall(t, s, e, n) ==
  /\ prog = "meeting"
  /\ pc[t] = "idle"
  /\ Invoke(t)
  /\ op' = [op EXCEPT ![t] = "bookMeeting"]
  /\ arg' = [arg EXCEPT ![t] = [start |-> s, end |-> e, n |-> n, id |-> 0]]
  /\ LET room == select(findByCapacity(rooms_, n), n)
         a    == [start |-> s, end |-> e, n |-> n, id |-> 0]
     IN IF room = NoRoom
        THEN /\ pc' = [pc EXCEPT ![t] = "done"]
             /\ ret' = [ret EXCEPT ![t] = Empty]
             /\ scen' = IF Alone(t) THEN NoScen ELSE [NoScen EXCEPT !.mixed = TRUE]
             /\ UNCHANGED <<b, nextId>>
        ELSE /\ pc' = [pc EXCEPT ![t] = "mtxFind"]
             /\ b' = [b EXCEPT ![t] = [id |-> nextId, roomId |-> room.id,
                                       start |-> s, end |-> e]]
             /\ nextId' = nextId + 1
             /\ scen' = ScenCall(t, "bookMeeting", a)
             /\ UNCHANGED ret
  /\ UNCHANGED <<pvars, prog, rooms_, br_, cal, mutexes_, locked, lockRef, released,
                 clean>>

NodesOf(r) == { m \in mutexes_ : m.room = r }

\* bookMeeting, line 200: mutexes_[b.roomId], the lookup of std::map::operator[]
MutexFind(t) ==
  /\ pc[t] = "mtxFind"
  /\ IF NodesOf(b[t].roomId) = {}
     THEN /\ pc' = [pc EXCEPT ![t] = "mtxInsert"]
          /\ UNCHANGED lockRef
     ELSE /\ \E m \in NodesOf(b[t].roomId) : lockRef' = [lockRef EXCEPT ![t] = m]
          /\ pc' = [pc EXCEPT ![t] = "lock"]
  /\ UNCHANGED <<pvars, prog, ncalls, seq, rooms_, br_, cal, mutexes_, locked, nextId, op,
                 arg, b, ret, scen, released, clean>>

\* bookMeeting, line 200: mutexes_[b.roomId], the insertion of std::map::operator[].
\* The map is not synchronised: when another thread inserted the key since this
\* thread's lookup, the two unsynchronised insertions race, and this thread ends
\* with the other's node or with a node of its own.
MutexInsert(t) ==
  /\ pc[t] = "mtxInsert"
  /\ \E m \in NodesOf(b[t].roomId) \cup {[room |-> b[t].roomId, by |-> t]} :
       /\ mutexes_' = mutexes_ \cup {m}
       /\ lockRef' = [lockRef EXCEPT ![t] = m]
  /\ pc' = [pc EXCEPT ![t] = "lock"]
  /\ UNCHANGED <<pvars, prog, ncalls, seq, rooms_, br_, cal, locked, nextId, op, arg, b,
                 ret, scen, released, clean>>

\* bookMeeting, line 200: unique_lock lock(...), blocking until the mutex is free
Lock(t) ==
  /\ pc[t] = "lock"
  /\ lockRef[t] \notin locked
  /\ locked' = locked \cup {lockRef[t]}
  /\ pc' = [pc EXCEPT ![t] = "isFree"]
  /\ UNCHANGED <<pvars, prog, ncalls, seq, rooms_, br_, cal, mutexes_, nextId, op, arg, b,
                 lockRef, ret, scen, released, clean>>

\* mutated: the return on a conflict leaves the mutex locked
CheckFreeKeep(t) ==
  /\ pc[t] = "isFree"
  /\ IF isFree(cal, b[t].roomId, b[t])
     THEN /\ pc' = [pc EXCEPT ![t] = "save"]
          /\ UNCHANGED <<locked, ret, b, lockRef, scen>>
     ELSE /\ UNCHANGED locked
          /\ Finish(t, Empty)
  /\ UNCHANGED <<pvars, prog, ncalls, seq, rooms_, br_, cal, mutexes_, nextId, op, arg,
                 released, clean>>

\* bookMeeting, line 201: if (!cal.isFree(b.roomId, b)) return nullopt;
CheckFree(t) ==
  /\ pc[t] = "isFree"
  /\ IF isFree(cal, b[t].roomId, b[t])
     THEN /\ pc' = [pc EXCEPT ![t] = "save"]
          /\ UNCHANGED <<locked, ret, b, lockRef, scen>>
     ELSE /\ locked' = locked \ {lockRef[t]}
          /\ Finish(t, Empty)
  /\ UNCHANGED <<pvars, prog, ncalls, seq, rooms_, br_, cal, mutexes_, nextId, op, arg,
                 released, clean>>

\* bookMeeting, line 204: br_.save(b)
Save(t) ==
  /\ prog = "meeting"
  /\ pc[t] = "save"
  /\ br_' = br_ \cup {b[t]}
  /\ released' = [released EXCEPT ![b[t].id] = "held"]
  /\ clean' = [u \in Threads |-> clean[u] /\ ~(op[u] = "cancelMeeting" /\ arg[u].id = b[t].id)]
  /\ pc' = [pc EXCEPT ![t] = "addEntry"]
  /\ UNCHANGED <<pvars, prog, ncalls, seq, rooms_, cal, mutexes_, locked, nextId, op, arg, b,
                 lockRef, ret, scen>>

\* bookMeeting, line 205: cal.addEntry(b)
AddEntry(t) ==
  /\ pc[t] = "addEntry"
  /\ cal' = cal \cup {b[t]}
  /\ pc' = [pc EXCEPT ![t] = "sendInvites"]
  /\ UNCHANGED <<pvars, prog, ncalls, seq, rooms_, br_, mutexes_, locked, nextId, op, arg, b,
                 lockRef, ret, scen, released, clean>>

\* bookMeeting, lines 206-209: sendInvites, return b.id; the lock dies with the scope
SendInvites(t) ==
  /\ pc[t] = "sendInvites"
  /\ locked' = locked \ {lockRef[t]}
  /\ Finish(t, RetId(b[t].id))
  /\ UNCHANGED <<pvars, prog, ncalls, seq, rooms_, br_, cal, mutexes_, nextId, op, arg,
                 released, clean>>

\* ---------------------------------------------------------- cancelMeeting
\* BookingRepository::findById on br_
findById(repo, id) == { x \in repo : x.id = id }

\* BookingRepository::remove
remove(repo, id) == { x \in repo : x.id # id }

\* cancelMeeting, lines 212-214: the lookup in br_
CancelCall(t, id) ==
  /\ prog = "meeting"
  /\ pc[t] = "idle"
  /\ Invoke(t)
  /\ op' = [op EXCEPT ![t] = "cancelMeeting"]
  /\ arg' = [arg EXCEPT ![t] = [NoArg EXCEPT !.id = id]]
  /\ clean' = [clean EXCEPT ![t] = TRUE]
  /\ IF findById(br_, id) = {}
     THEN /\ pc' = [pc EXCEPT ![t] = "done"]
          /\ ret' = [ret EXCEPT ![t] = RetBool(FALSE)]
          /\ scen' = IF Alone(t) THEN NoScen ELSE [NoScen EXCEPT !.mixed = TRUE]
          /\ UNCHANGED b
     ELSE /\ pc' = [pc EXCEPT ![t] = "remove"]
          /\ b' = [b EXCEPT ![t] = CHOOSE x \in findById(br_, id) : TRUE]
          /\ scen' = ScenCall(t, "cancelMeeting", [NoArg EXCEPT !.id = id])
          /\ UNCHANGED ret
  /\ UNCHANGED <<pvars, prog, rooms_, br_, cal, mutexes_, locked, lockRef, nextId,
                 released>>

\* cancelMeeting, line 215: br_.remove(id)
CancelRemove(t) ==
  /\ prog = "meeting"
  /\ pc[t] = "remove"
  /\ br_' = remove(br_, arg[t].id)
  /\ pc' = [pc EXCEPT ![t] = "removeEntry"]
  /\ UNCHANGED <<pvars, prog, ncalls, seq, rooms_, cal, mutexes_, locked, nextId, op, arg, b,
                 lockRef, ret, scen, released, clean>>

\* mutated: the calendar entry is left in place
CancelRemoveEntrySkip(t) ==
  /\ pc[t] = "removeEntry"
  /\ pc' = [pc EXCEPT ![t] = "sendCancellations"]
  /\ UNCHANGED <<pvars, prog, ncalls, seq, rooms_, br_, cal, mutexes_, locked, nextId,
                 op, arg, b, lockRef, ret, scen, released, clean>>

\* cancelMeeting, line 216: CalendarService::removeEntry(id)
CancelRemoveEntry(t) ==
  /\ pc[t] = "removeEntry"
  /\ cal' = remove(cal, arg[t].id)
  /\ pc' = [pc EXCEPT ![t] = "sendCancellations"]
  /\ UNCHANGED <<pvars, prog, ncalls, seq, rooms_, br_, mutexes_, locked, nextId, op, arg, b,
                 lockRef, ret, scen, released, clean>>

\* cancelMeeting, lines 217-219: sendCancellations, return true
SendCancellations(t) ==
  /\ pc[t] = "sendCancellations"
  /\ Finish(t, RetBool(TRUE))
  /\ released' = IF clean[t] THEN [released EXCEPT ![arg[t].id] = "released"]
                 ELSE released
  /\ UNCHANGED <<pvars, prog, ncalls, seq, rooms_, br_, cal, mutexes_, locked, nextId, op,
                 arg, clean>>

\* the caller takes the result; the thread is free for its next call
Return(t) ==
  /\ pc[t] = "done"
  /\ pc' = [pc EXCEPT ![t] = "idle"]
  /\ op' = [op EXCEPT ![t] = "none"]
  /\ ret' = [ret EXCEPT ![t] = NoRet]
  /\ arg' = [arg EXCEPT ![t] = NoArg]
  /\ veh' = [veh EXCEPT ![t] = 0]
  /\ vtype' = [vtype EXCEPT ![t] = "none"]
  /\ clean' = [clean EXCEPT ![t] = TRUE]
  /\ UNCHANGED <<prog, ncalls, seq, nextId, released, rooms_, br_, cal, mutexes_, locked, b,
                 lockRef, scen, spots_, pmutexes_, plocked, bookings_, vehicleIndex_,
                 it, pb>>

\* ------------------------------------------------------------- parkingLot
Vehicles     == 1..NumVehicles
VehicleTypes == {"Motorcycle", "Car", "Truck"}
SpotTypes    == {"Motorcycle", "Compact", "Large"}

NoPBooking == [id |-> 0, spotId |-> 0, vehicleId |-> 0]

\* mutated: a truck is let into a compact spot as a car is
fitsTruckAsCar(v, s) ==
  CASE v = "Motorcycle" -> TRUE
    [] v = "Car"        -> s = "Compact" \/ s = "Large"
    [] v = "Truck"      -> s = "Compact" \/ s = "Large"
    [] OTHER            -> FALSE

\* ParkingService::fits
fits(v, s) ==
  CASE v = "Motorcycle" -> TRUE
    [] v = "Car"        -> s = "Compact" \/ s = "Large"
    [] v = "Truck"      -> s = "Large"
    [] OTHER            -> FALSE

\* BookingRepository::findByVehicle: the indexed booking, {} when the vehicle has
\* no index entry; bookings_[id] of an id that is not stored yields a default Booking
findByVehicle(v) ==
  IF v \notin DOMAIN vehicleIndex_ \/ vehicleIndex_[v] = 0 THEN {}
  ELSE IF \E x \in bookings_ : x.id = vehicleIndex_[v]
       THEN { x \in bookings_ : x.id = vehicleIndex_[v] }
       ELSE { [NoPBooking EXCEPT !.id = vehicleIndex_[v]] }

\* ParkingService::isOccupied: looks up the vehicle "" and answers false
isOccupied(spotId) ==
  LET all == findByVehicle(0) IN FALSE

\* the spot ids in the order the loops over mutexes_ visit them
SpotOrder == [i \in 1..Cardinality(pmutexes_) |-> i]

\* a parking call's return
PFinish(t, r) ==
  /\ pc' = [pc EXCEPT ![t] = "done"]
  /\ ret' = [ret EXCEPT ![t] = r]
  /\ pb' = [pb EXCEPT ![t] = NoPBooking]
  /\ it' = [it EXCEPT ![t] = 0]

\* createParkingLot, one level: the spots of each type get fresh ids, so the
\* types fall in any order of spot id; every spot gets its mutex
CreateParkingLot(types) ==
  /\ prog = "parking"
  /\ pmutexes_ = {}
  /\ spots_' = types
  /\ pmutexes_' = DOMAIN types
  /\ UNCHANGED <<mvars, cvars, plocked, bookings_, vehicleIndex_, veh, vtype, it, pb>>

\* parkVehicle, line 190: the loop starts
ParkCall(t, v, vt) ==
  /\ prog = "parking"
  /\ pc[t] = "idle"
  /\ Invoke(t)
  /\ op' = [op EXCEPT ![t] = "parkVehicle"]
  /\ veh' = [veh EXCEPT ![t] = v]
  /\ vtype' = [vtype EXCEPT ![t] = vt]
  /\ it' = [it EXCEPT ![t] = 1]
  /\ pc' = [pc EXCEPT ![t] = "tryLock"]
  /\ UNCHANGED <<mvars, prog, nextId, ret, released, clean, spots_, pmutexes_, plocked,
                 bookings_, vehicleIndex_, pb>>

\* mutated: a blocking lock in place of try_to_lock
TryLockWait(t) ==
  /\ pc[t] = "tryLock"
  /\ IF it[t] > Len(SpotOrder)
     THEN /\ PFinish(t, Empty)
          /\ UNCHANGED plocked
     ELSE /\ SpotOrder[it[t]] \notin plocked
          /\ plocked' = plocked \cup {SpotOrder[it[t]]}
          /\ pc' = [pc EXCEPT ![t] = "check"]
          /\ UNCHANGED <<ret, pb, it>>
  /\ UNCHANGED <<mvars, prog, ncalls, seq, nextId, op, released, clean, spots_,
                 pmutexes_, bookings_, vehicleIndex_, veh, vtype>>

\* parkVehicle, lines 190-193 and 205: the loop's end, or try_to_lock on the spot
TryLock(t) ==
  /\ pc[t] = "tryLock"
  /\ IF it[t] > Len(SpotOrder)
     THEN /\ PFinish(t, Empty)
          /\ UNCHANGED plocked
     ELSE IF SpotOrder[it[t]] \in plocked
          THEN /\ it' = [it EXCEPT ![t] = it[t] + 1]
               /\ UNCHANGED <<pc, ret, pb, plocked>>
          ELSE /\ plocked' = plocked \cup {SpotOrder[it[t]]}
               /\ pc' = [pc EXCEPT ![t] = "check"]
               /\ UNCHANGED <<ret, pb, it>>
  /\ UNCHANGED <<mvars, prog, ncalls, seq, nextId, op, released, clean, spots_,
                 pmutexes_, bookings_, vehicleIndex_, veh, vtype>>

\* mutated: continue leaves the skipped spot's mutex locked
CheckKeep(t) ==
  /\ pc[t] = "check"
  /\ LET spotId == SpotOrder[it[t]]
     IN IF \/ isOccupied(spotId)
           \/ spotId \notin DOMAIN spots_
           \/ ~fits(vtype[t], spots_[spotId])
        THEN /\ it' = [it EXCEPT ![t] = it[t] + 1]
             /\ pc' = [pc EXCEPT ![t] = "tryLock"]
             /\ UNCHANGED <<pb, nextId, plocked>>
        ELSE /\ pb' = [pb EXCEPT ![t] = [id |-> nextId, spotId |-> spotId,
                                         vehicleId |-> veh[t]]]
             /\ nextId' = nextId + 1
             /\ pc' = [pc EXCEPT ![t] = "save"]
             /\ UNCHANGED <<plocked, it>>
  /\ UNCHANGED <<mvars, prog, ncalls, seq, op, ret, released, clean, spots_, pmutexes_,
                 bookings_, vehicleIndex_, veh, vtype>>

\* parkVehicle, lines 193-201: isOccupied, the spot, fits, the Booking
Check(t) ==
  /\ pc[t] = "check"
  /\ LET spotId == SpotOrder[it[t]]
     IN IF \/ isOccupied(spotId)
           \/ spotId \notin DOMAIN spots_
           \/ ~fits(vtype[t], spots_[spotId])
        THEN /\ plocked' = plocked \ {spotId}
             /\ it' = [it EXCEPT ![t] = it[t] + 1]
             /\ pc' = [pc EXCEPT ![t] = "tryLock"]
             /\ UNCHANGED <<pb, nextId>>
        ELSE /\ pb' = [pb EXCEPT ![t] = [id |-> nextId, spotId |-> spotId,
                                         vehicleId |-> veh[t]]]
             /\ nextId' = nextId + 1
             /\ pc' = [pc EXCEPT ![t] = "save"]
             /\ UNCHANGED <<plocked, it>>
  /\ UNCHANGED <<mvars, prog, ncalls, seq, op, ret, released, clean, spots_, pmutexes_,
                 bookings_, vehicleIndex_, veh, vtype>>

\* BookingRepository::save, the bookings_ it leaves
saveBookings(x) == { y \in bookings_ : y.id # x.id } \cup {x}

\* BookingRepository::save, the vehicleIndex_ it leaves
saveIndex(x) == [vehicleIndex_ EXCEPT ![x.vehicleId] = x.id]

\* parkVehicle, lines 202-203: bookingRepo_.save(b), return b.id; the lock dies
ParkSave(t) ==
  /\ prog = "parking"
  /\ pc[t] = "save"
  /\ bookings_' = saveBookings(pb[t])
  /\ vehicleIndex_' = saveIndex(pb[t])
  /\ plocked' = plocked \ {pb[t].spotId}
  /\ released' = [released EXCEPT ![veh[t]] = "held"]
  /\ clean' = [u \in Threads |->
                clean[u] /\ ~(op[u] = "leaveVehicle" /\ veh[u] = veh[t])]
  /\ PFinish(t, RetId(pb[t].id))
  /\ UNCHANGED <<mvars, prog, ncalls, seq, nextId, op, spots_, pmutexes_, veh, vtype>>

\* leaveVehicle, lines 209-211: the lookup by vehicle
LeaveCall(t, v) ==
  /\ prog = "parking"
  /\ pc[t] = "idle"
  /\ Invoke(t)
  /\ op' = [op EXCEPT ![t] = "leaveVehicle"]
  /\ veh' = [veh EXCEPT ![t] = v]
  /\ clean' = [clean EXCEPT ![t] = TRUE]
  /\ IF findByVehicle(v) = {}
     THEN /\ pc' = [pc EXCEPT ![t] = "done"]
          /\ ret' = [ret EXCEPT ![t] = RetBool(FALSE)]
          /\ UNCHANGED <<pb, bookings_>>
     ELSE /\ pc' = [pc EXCEPT ![t] = "remove"]
          /\ pb' = [pb EXCEPT ![t] = CHOOSE x \in findByVehicle(v) : TRUE]
          /\ bookings_' = bookings_ \cup findByVehicle(v)
          /\ UNCHANGED ret
  /\ UNCHANGED <<mvars, prog, nextId, released, spots_, pmutexes_, plocked,
                 vehicleIndex_, vtype, it>>

\* BookingRepository::remove, the bookings_ it leaves
removeBookings(id) == { y \in bookings_ : y.id # id }

\* BookingRepository::remove, the vehicleIndex_ it leaves
removeIndex(id) ==
  [v \in DOMAIN vehicleIndex_ |->
     IF \E y \in bookings_ : y.id = id /\ y.vehicleId = v THEN 0 ELSE vehicleIndex_[v]]

\* leaveVehicle, lines 213-215: bookingRepo_.remove(b.id), return true
LeaveRemove(t) ==
  /\ prog = "parking"
  /\ pc[t] = "remove"
  /\ bookings_' = removeBookings(pb[t].id)
  /\ vehicleIndex_' = removeIndex(pb[t].id)
  /\ released' = IF clean[t] THEN [released EXCEPT ![veh[t]] = "released"] ELSE released
  /\ PFinish(t, RetBool(TRUE))
  /\ UNCHANGED <<mvars, prog, ncalls, seq, nextId, op, clean, spots_, pmutexes_,
                 plocked, veh, vtype>>

\* ParkingService::getAvailableSpots: the spots it lists
availableSpots(vt) ==
  SelectSeq(SpotOrder, LAMBDA s : ~isOccupied(s) /\ fits(vt, spots_[s]))

\* getAvailableSpots, lines 218-226
AvailCall(t, vt) ==
  /\ prog = "parking"
  /\ pc[t] = "idle"
  /\ Invoke(t)
  /\ op' = [op EXCEPT ![t] = "getAvailableSpots"]
  /\ vtype' = [vtype EXCEPT ![t] = vt]
  /\ pc' = [pc EXCEPT ![t] = "done"]
  /\ ret' = [ret EXCEPT ![t] = RetSpots(availableSpots(vt))]
  /\ UNCHANGED <<mvars, prog, nextId, released, clean, spots_, pmutexes_, plocked,
                 bookings_, vehicleIndex_, veh, it, pb>>

\* ---------------------------------------------------------- specification
\* The requested windows <<start, end>>, days being DayLen long: two that touch
\* within day 0, one on day 1, one that starts on day 0 and runs into day 1 over
\* it, and a malformed one.
Windows == { <<0, 1>>, <<1, 3>>, <<2, 3>>, <<1, 1>> }

InitMeeting ==
  /\ prog = "meeting"
  /\ rooms_ = Catalog
  /\ released = [k \in Ids |-> "never"]

InitCommon ==
  /\ ncalls = 0
  /\ seq = TRUE
  /\ nextId = 1
  /\ br_ = {} /\ cal = {} /\ mutexes_ = {} /\ locked = {}
  /\ pc = [t \in Threads |-> "idle"]
  /\ op = [t \in Threads |-> "none"]
  /\ arg = [t \in Threads |-> NoArg]
  /\ b = [t \in Threads |-> NoBooking]
  /\ lockRef = [t \in Threads |-> NoNode]
  /\ ret = [t \in Threads |-> NoRet]
  /\ scen = NoScen
  /\ clean = [t \in Threads |-> TRUE]
  /\ spots_ = <<>> /\ pmutexes_ = {} /\ plocked = {}
  /\ bookings_ = {}
  /\ veh = [t \in Threads |-> 0]
  /\ vtype = [t \in Threads |-> "none"]
  /\ it = [t \in Threads |-> 0]
  /\ pb = [t \in Threads |-> NoPBooking]

\* the steps of a call under way on thread t, and the caller taking its result
MeetingStep(t) ==
  \/ MutexFind(t)
  \/ MutexInsert(t)
  \/ Lock(t)
  \/ CheckFree(t)
  \/ Save(t)
  \/ AddEntry(t)
  \/ SendInvites(t)
  \/ CancelRemove(t)
  \/ CancelRemoveEntry(t)
  \/ SendCancellations(t)
  \/ (prog = "meeting" /\ Return(t))

NextMeeting ==
  \E t \in Threads :
    \/ \E w \in Windows, n \in 1..(MaxCap + 1) : BookCall(t, w[1], w[2], n)
    \/ \E id \in 1..nextId : CancelCall(t, id)
    \/ MeetingStep(t)

\* the runs of the meeting service in which no two calls overlap in time
NextMeetingSeq ==
  \E t \in Threads :
    \/ \E w \in Windows, n \in 1..(MaxCap + 1) : BookCall(t, w[1], w[2], n) /\ seq'
    \/ \E id \in 1..nextId : CancelCall(t, id) /\ seq'
    \/ MeetingStep(t)

NextParking ==
  \/ \E types \in [1..NumSpots -> SpotTypes] : CreateParkingLot(types)
  \/ \E t \in Threads :
       \/ \E v \in Vehicles, vt \in VehicleTypes : ParkCall(t, v, vt)
       \/ TryLock(t)
       \/ Check(t)
       \/ ParkSave(t)
       \/ \E v \in Vehicles : LeaveCall(t, v)
       \/ LeaveRemove(t)
       \/ \E vt \in VehicleTypes : AvailCall(t, vt)
       \/ (prog = "parking" /\ Return(t))

InitParking ==
  /\ prog = "parking"
  /\ rooms_ = <<>>
  /\ released = [k \in Vehicles |-> "never"]

Init ==
  /\ InitCommon
  /\ \/ InitMeeting /\ vehicleIndex_ = <<>>
     \/ InitParking /\ vehicleIndex_ = [v \in Vehicles |-> 0]

Next == NextMeeting \/ NextParking

Spec == Init /\ [][Next]_vars

MInit == Init /\ prog = "meeting"
PInit == Init /\ prog = "parking"

MSpec == MInit /\ [][NextMeeting]_vars
PSpec == PInit /\ [][NextParking]_vars
MSeqSpec == MInit /\ [][NextMeetingSeq]_vars

\* the steps of thread t inside a call of either service
CallStep(t) ==
  \/ MutexFind(t) \/ MutexInsert(t) \/ Lock(t) \/ CheckFree(t) \/ Save(t)
  \/ AddEntry(t) \/ SendInvites(t)
  \/ CancelRemove(t) \/ CancelRemoveEntry(t) \/ SendCancellations(t)
  \/ TryLock(t) \/ Check(t) \/ ParkSave(t) \/ LeaveRemove(t)

\* both services under fair scheduling: a thread inside a call that can take
\* its next step is not left waiting forever (every such step moves the
\* thread's position or its loop iterator)
FairSpec == Init /\ [][Next]_vars /\ \A t \in Threads : WF_<<pc, it>>(CallStep(t))

\* -------------------------------------- SmallestFitStrategy::select on its own
\* candidate lists: up to MaxListLen rooms of distinct ids, in any order
CandidateLists ==
  UNION { { l \in [1..k -> [id : 1..MaxListLen, capacity : 1..(MaxCap + 1)]] :
              \A i, j \in 1..k : i # j => l[i].id # l[j].id } : k \in 0..MaxListLen }

SelInit ==
  /\ InitCommon
  /\ prog = "select"
  /\ rooms_ \in CandidateLists
  /\ released = <<>>
  /\ vehicleIndex_ = <<>>

\* strat_.select(rooms, cap) called on the candidate list
SelectCall(t, cap) ==
  /\ prog = "select"
  /\ pc[t] = "idle"
  /\ \A u \in Threads : u < t => InCall(u)
  /\ op' = [op EXCEPT ![t] = "select"]
  /\ arg' = [arg EXCEPT ![t] = [NoArg EXCEPT !.n = cap]]
  /\ ret' = [ret EXCEPT ![t] = select(rooms_, cap)]
  /\ pc' = [pc EXCEPT ![t] = "done"]
  /\ UNCHANGED <<pvars, prog, ncalls, seq, nextId, released, clean, rooms_, br_, cal,
                 mutexes_, locked, b, lockRef, scen>>

SelNext ==
  \E t \in Threads :
    \/ \E cap \in 1..(MaxCap + 2) : SelectCall(t, cap)
    \/ (prog = "select" /\ Return(t))

SelSpec == SelInit /\ [][SelNext]_vars

\* ================================================================ claims
\* two windows share a point of time, as half-open intervals [start, end)
Overlap(x, y) ==
  /\ x.start < y.end /\ y.start < x.end
  /\ x.start < x.end /\ y.start < y.end

\* C1: any two distinct persisted bookings of the same room have windows that
\* do not overlap, whatever days the windows start on.
C1_NoOverlap ==
  \A x, y \in br_ : (x # y /\ x.roomId = y.roomId) => ~Overlap(x, y)

\* C2: when every thread's first call is a bookMeeting, the windows overlap
\* pairwise, exactly one room is large enough and nothing was booked before,
\* exactly one of the calls returns a booking id.
C2_ExactlyOneWins ==
  ( /\ ncalls = NumThreads
    /\ \A t \in Threads : /\ pc[t] = "done" /\ op[t] = "bookMeeting"
                          /\ Len(findByCapacity(rooms_, arg[t].n)) = 1
    /\ \A t, u \in Threads : t # u => Overlap(arg[t], arg[u]) )
  => Cardinality({ t \in Threads : ret[t] # Empty }) = 1

\* C3: no two stored bookings name the same parking spot.
C3_OneBookingPerSpot ==
  \A x, y \in bookings_ : x # y => x.spotId # y.spotId

\* C4: no two stored bookings name the same vehicle.
C4_OneBookingPerVehicle ==
  \A x, y \in bookings_ : x # y => x.vehicleId # y.vehicleId

\* thread t invokes call o in this step
Invoked(t, o) == pc[t] = "idle" /\ pc'[t] # "idle" /\ op'[t] = o

\* C5, for cancelMeeting(id): with a booking of that id stored the call does not
\* return false; when the id was never allocated, or its last release returned
\* true and no allocate took effect since, it returns false and changes no store.
C5_Cancel(t) ==
  Invoked(t, "cancelMeeting") =>
    /\ findById(br_, arg'[t].id) # {} => pc'[t] # "done"
    /\ released[arg'[t].id] # "held" =>
         (pc'[t] = "done" /\ ret'[t] = RetBool(FALSE) /\ br_' = br_ /\ cal' = cal)

\* C5, for leaveVehicle(vehicleId): the same, the key being the vehicle id.
C5_Leave(t) ==
  Invoked(t, "leaveVehicle") =>
    /\ (\E x \in bookings_ : x.vehicleId = veh'[t]) => pc'[t] # "done"
    /\ released[veh'[t]] # "held" =>
         ( /\ pc'[t] = "done" /\ ret'[t] = RetBool(FALSE)
           /\ bookings_' = bookings_ /\ vehicleIndex_' = vehicleIndex_ )

\* C5: release is idempotent: for an existing reservation it returns true the
\* first time and false the second, the second call changing nothing; release
\* of a key never allocated returns false.
C5_ReleaseIdempotent ==
  [][ \A t \in Threads :
        /\ C5_Cancel(t)
        /\ C5_Leave(t)
        /\ (pc[t] \in {"remove", "sendCancellations"} /\ pc'[t] = "done") =>
             ret'[t] = RetBool(TRUE)
    ]_vars

\* the windows over the points of time the requests use
AllWindows ==
  LET T == UNION { {w[1], w[2]} : w \in Windows }
  IN  [start : T, end : T]

\* C6: overlaps(existing, candidate) holds exactly when candidate.start <
\* existing.end and existing.start < candidate.end, for the booking bookMeeting
\* is checking against every window; so its check of the room passes exactly
\* when no booking it compares starts before the request ends and ends after the
\* request starts, and a booking that ends when the request starts does not
\* stand in its way.
C6_OverlapsHalfOpen ==
  \A t \in Threads : pc[t] = "isFree" =>
    /\ \A a \in AllWindows :
         /\ overlaps(a, b[t]) <=> (b[t].start < a.end /\ a.start < b[t].end)
         /\ overlaps(b[t], a) <=> (a.start < b[t].end /\ b[t].start < a.end)
    /\ isFree(cal, b[t].roomId, b[t]) <=>
         \A ex \in findByRoomAndDay(cal, b[t].roomId, toDate(b[t].start)) :
            ~(b[t].start < ex.end /\ ex.start < b[t].end)

\* C6, its case: two bookings of one room are stored, the one ending at the
\* time the other starts, both starting on the same day.
C6_Witness ==
  \E x, y \in br_ :
    /\ x.roomId = y.roomId /\ x.end = y.start
    /\ x.start < x.end /\ y.start < y.end
    /\ toDate(x.start) = toDate(y.start)
    /\ {x, y} \subseteq cal

\* C7: bookMeeting(A, W) succeeded, bookMeeting(B, W) then returned empty,
\* cancelMeeting(A's id) then returned true: the next bookMeeting(B, W) returns
\* a booking id.
C7_ReleaseFrees == scen.phase = 4 => RetId(scen.id) # Empty

\* C7, its case: the four calls have run and the last one returned an id.
C7_Witness == scen.phase = 4 /\ RetId(scen.id) # Empty

\* C8: no spot getAvailableSpots lists holds a stored booking.
C8_AvailableAreFree ==
  [][ \A t \in Threads :
        Invoked(t, "getAvailableSpots") =>
          \A i \in 1..Len(ret'[t].spots) :
            ~(\E x \in bookings_ : x.spotId = ret'[t].spots[i])
    ]_vars

\* a select call has returned to thread t
Selected(t) == pc[t] = "done" /\ op[t] = "select"

\* the positions of the candidates that hold at least cap
Qualifying(cap) == { i \in 1..Len(rooms_) : rooms_[i].capacity >= cap }

\* among them, those of the least capacity
Smallest(cap) ==
  { i \in Qualifying(cap) :
      \A j \in Qualifying(cap) : rooms_[i].capacity <= rooms_[j].capacity }

\* C9: select returns a candidate of the least capacity among those holding
\* at least the required capacity, and returns empty exactly when none does.
C9_SmallestFit ==
  \A t \in Threads : Selected(t) =>
    /\ (ret[t] = NoRoom) <=> (Qualifying(arg[t].n) = {})
    /\ Qualifying(arg[t].n) # {} =>
         \E i \in Smallest(arg[t].n) : ret[t] = rooms_[i]

\* C9, its case: select returned a room although the list held a room too small
\* for the request and a qualifying room larger than the one returned.
C9_Witness ==
  \E t \in Threads :
    /\ Selected(t) /\ ret[t] # NoRoom
    /\ \E i \in 1..Len(rooms_) : rooms_[i].capacity < arg[t].n
    /\ \E i \in Qualifying(arg[t].n) : rooms_[i].capacity > ret[t].capacity

FitTable ==
  ({"Motorcycle"} \X SpotTypes) \cup ({"Car"} \X {"Compact", "Large"})
    \cup ({"Truck"} \X {"Large"})

\* the spots of the lot whose type the fit table allows to vehicle type vt
CompatibleSpots(vt) == { s \in DOMAIN spots_ : <<vt, spots_[s]>> \in FitTable }

C11_BookingFits ==
  \A t \in Threads :
    /\ (prog = "parking" /\ pc[t] = "save") =>
          /\ pb[t].vehicleId = veh[t]
          /\ pb[t].spotId \in CompatibleSpots(vtype[t])
    /\ (pc[t] = "done" /\ op[t] = "parkVehicle" /\ CompatibleSpots(vtype[t]) = {}) =>
          ret[t] = Empty

\* C11 amended, during the scan: parkVehicle passes over a spot only when the
\* spot's lock is held by another thread or the fit table does not allow the
\* spot to the vehicle, and it books the spot it stands on.
C11_PassesOver(t) ==
  /\ (op[t] = "parkVehicle" /\ it[t] >= 1 /\ it'[t] = it[t] + 1) =>
        \/ pc[t] = "tryLock" /\ SpotOrder[it[t]] \in plocked
        \/ pc[t] = "check" /\ SpotOrder[it[t]] \notin CompatibleSpots(vtype[t])
  /\ (pc[t] = "check" /\ pc'[t] = "save") => pb'[t].spotId = SpotOrder[it[t]]

HoldsRoomLock(t) ==
  /\ pc[t] \in {"isFree", "save", "addEntry", "sendInvites"}
  /\ lockRef[t] \in locked
  /\ lockRef[t].room = b[t].roomId

\* thread t of the parking service holds the lock of spot s
HoldsSpotLock(t, s) ==
  /\ pc[t] \in {"check", "save"}
  /\ SpotOrder[it[t]] = s
  /\ s \in plocked

\* C12: whenever a thread is about to read or write a store for a resource, in
\* bookMeeting, cancelMeeting, parkVehicle or leaveVehicle, it holds that
\* resource's lock.
C12_StoresUnderLock ==
  \A t \in Threads :
    /\ (prog = "meeting" /\ pc[t] \in {"isFree", "save", "addEntry", "remove", "removeEntry"})
         => HoldsRoomLock(t)
    /\ (prog = "parking" /\ pc[t] \in {"save", "remove"})
         => HoldsSpotLock(t, pb[t].spotId)

\* C13: a thread that is about to call the notification collaborator, sendInvites
\* or sendCancellations, holds no resource lock.
C13_NotifyOutsideLock ==
  \A t \in Threads :
    pc[t] \in {"sendInvites", "sendCancellations"} => lockRef[t] \notin locked

\* C14: a bookMeeting whose window has end <= start returns empty without having
\* looked for or taken a room lock, and no booking with such a window is stored.
C14_MalformedRejected ==
  /\ \A t \in Threads :
        (prog = "meeting" /\ op[t] = "bookMeeting" /\ arg[t].end <= arg[t].start) =>
          (pc[t] = "done" /\ ret[t] = Empty)
  /\ \A x \in br_ : x.start < x.end

\* C15: the room whose lock a bookMeeting is about to look up has its lock in
\* the registry, exactly one; no bookMeeting is about to insert a lock; every
\* parking spot has its lock in the registry.
C15_LockExistsBeforeUse ==
  /\ \A t \in Threads :
        /\ pc[t] = "mtxFind" => Cardinality(NodesOf(b[t].roomId)) = 1
        /\ pc[t] # "mtxInsert"
  /\ DOMAIN spots_ = pmutexes_

\* C16: every locked mutex is held by a thread inside the locked part of
\* bookMeeting or of parkVehicle's loop body; a thread that is not inside a call
\* (it has returned a booking id, or empty after a conflict or after skipping
\* spots) holds none, so when no call is in progress every lock is free.
C16_LocksReleased ==
  /\ \A m \in locked : \E t \in Threads : HoldsRoomLock(t) /\ lockRef[t] = m
  /\ \A s \in plocked : \E t \in Threads : HoldsSpotLock(t, s)
  /\ \A t \in Threads : ~InCall(t) => lockRef[t] = NoNode
  /\ (\A t \in Threads : ~InCall(t)) => (locked = {} /\ plocked = {})

\* C16, its case: no call is in progress, a bookMeeting has returned empty
\* after it locked the room and found a conflict, and the room's mutex is free.
C16_Witness ==
  /\ \A t \in Threads : ~InCall(t)
  /\ \E t \in Threads :
        /\ pc[t] = "done" /\ op[t] = "bookMeeting" /\ ret[t] = Empty
        /\ \E m \in mutexes_ : m.room = select(findByCapacity(rooms_, arg[t].n), arg[t].n).id
  /\ locked = {}

\* C17, the locks: the locked mutexes are no more than the threads inside a
\* locked part, each of which holds the one mutex it locked.
C17_AtMostOneLock ==
  /\ Cardinality(locked) <= Cardinality({ t \in Threads : HoldsRoomLock(t) })
  /\ Cardinality(plocked) <=
       Cardinality({ t \in Threads : \E s \in plocked : HoldsSpotLock(t, s) })

\* C17: a call holds at most one resource lock at any time, and under fair
\* scheduling every call that was invoked returns.
C17_OneLockNoDeadlock ==
  /\ []C17_AtMostOneLock
  /\ \A t \in Threads : InCall(t) ~> ~InCall(t)

\* C17, its case: a bookMeeting waits for the mutex that another bookMeeting
\* holds.
C17_Witness ==
  \E t, u \in Threads :
    /\ pc[t] = "lock" /\ lockRef[t] \in locked
    /\ HoldsRoomLock(u) /\ lockRef[u] = lockRef[t]

\* C18, at every point of a scan: the thread can take its step whatever locks
\* the others hold, and the scan is within one pass over the spots.
C18_CanStep ==
  \A t \in Threads : (prog = "parking" /\ pc[t] = "tryLock") =>
    /\ ENABLED TryLock(t)
    /\ it[t] \in 1..(Len(SpotOrder) + 1)

\* C18, the steps of a scan: a spot whose lock is held is skipped and the scan
\* goes on with the next spot; the scan never goes back; the call that gets the
\* lock of a compatible spot books it and returns the booking id; empty is
\* returned only at the end of the pass.
C18_Scan(t) ==
  /\ (pc[t] = "tryLock" /\ <<pc[t], it[t]>> # <<pc'[t], it'[t]>>) =>
        IF it[t] > Len(SpotOrder) THEN pc'[t] = "done" /\ ret'[t] = Empty
        ELSE IF SpotOrder[it[t]] \in plocked
             THEN pc'[t] = "tryLock" /\ it'[t] = it[t] + 1 /\ plocked' = plocked
             ELSE pc'[t] = "check" /\ it'[t] = it[t]
  /\ (pc[t] \in {"tryLock", "check"} /\ pc'[t] \in {"tryLock", "check", "save"}) =>
        it'[t] \in {it[t], it[t] + 1}
  /\ (pc[t] = "check" /\ pc'[t] # "check") =>
        IF SpotOrder[it[t]] \in CompatibleSpots(vtype[t])
        THEN pc'[t] = "save"
        ELSE pc'[t] = "tryLock" /\ it'[t] = it[t] + 1
  /\ (prog = "parking" /\ pc[t] = "save" /\ pc'[t] = "done") => ret'[t] # Empty
  /\ (op[t] = "parkVehicle" /\ pc[t] # "done" /\ pc'[t] = "done" /\ pc[t] # "save") =>
        (pc[t] = "tryLock" /\ it[t] > Len(SpotOrder) /\ ret'[t] = Empty)

C19_IndexConsistent ==
  /\ \A v \in DOMAIN vehicleIndex_ :
        vehicleIndex_[v] # 0 =>
          \E x \in bookings_ : x.id = vehicleIndex_[v] /\ x.vehicleId = v
  /\ \A x \in bookings_ :
        x.vehicleId \in DOMAIN vehicleIndex_ /\ vehicleIndex_[x.vehicleId] = x.id

\* C20: whenever no bookMeeting or cancelMeeting call is in progress, br_ and
\* the calendar's store hold the same bookings.
C20_StoresAgree ==
  (prog = "meeting" /\ \A t \in Threads : ~InCall(t)) => br_ = cal

====
